---- MODULE Spec2Model ----
(***************************************************************************)
(* A model of stor: a typed access layer over a transactional key-value    *)
(* engine (src/src/lib.rs, src/src/db/rocks.rs, src/src/types.rs).         *)
(*                                                                         *)
(* Byte strings are sequences of 0..255.  An optional value is a sequence  *)
(* of length at most one: <<>> is none, <<x>> is some(x).                  *)
(***************************************************************************)
EXTENDS Integers, Sequences, FiniteSets, TLC

VARIABLES
    kbytes,     \* the Vec<u8> advance_key / retreat_key works on
    kprev,      \* its content before the last call
    kop,        \* the last call: "init", "advance", "retreat", "panic"
    cfs,        \* the column families of the engine
    handles,    \* the names Store::table has returned a RockTable for
    committed,  \* the committed content of every column family
    tx,         \* the transactions: state, kind and buffered write batch
    res,        \* the last call on the store and what it returned
    it,         \* the Iter the last range / rev_range returned
    wp,         \* the with_wtx call in progress or last finished
    snap,       \* the first get of a read transaction still open
    clr,        \* the last clear whose table nothing has written to since
    nw,         \* the number of put / delete / clear calls made so far
    track,      \* the history a behaviour keeps: "none", "snap", "clear", "wtx"
    cd,         \* the codec call: codec, value, buffer and what decode returned
    pg,         \* the paged call: its cursors, the calls of the step function
    tb          \* the Tables bundle: its engine, its table handles, their releases

keyVars == <<kbytes, kprev, kop>>

\* the state of the free functions and codecs, which no call on the store
\* touches
libVars == <<kbytes, kprev, kop, cd, pg, tb>>

storeVars == <<cfs, handles, committed, tx, res, it, wp, snap, clr, nw, track>>

vars ==
    <<kbytes, kprev, kop, cfs, handles, committed, tx, res, it, wp, snap, clr, nw,
      track, cd, pg, tb>>

(***************************************************************************)
(* Bounds                                                                  *)
(***************************************************************************)
\* longest byte string the key arithmetic is started on
MaxLen == 2

(***************************************************************************)
(* Byte strings and their order                                            *)
(***************************************************************************)
\* the largest value of a u8
ByteMax == 255

Byte == 0..ByteMax

\* the byte values the inputs are drawn from: both ends of the u8 range
ByteVals == {0, 1, ByteMax - 1, ByteMax}

\* all strings over the alphabet a of length at most n
Strings(a, n) == UNION {[1..m -> a] : m \in 0..n}

Min(a, b) == IF a <= b THEN a ELSE b

\* byte-lexicographic order of the engine's default comparator: the first
\* differing byte decides, and a proper prefix sorts first
LexLess(a, b) ==
    \/ \E i \in 1..Min(Len(a), Len(b)) :
          /\ \A j \in 1..(i - 1) : a[j] = b[j]
          /\ a[i] < b[i]
    \/ /\ Len(a) < Len(b)
       /\ \A j \in 1..Len(a) : a[j] = b[j]

LexLeq(a, b) == a = b \/ LexLess(a, b)

(***************************************************************************)
(* advance_key / retreat_key  (src/src/lib.rs:11-26)                       *)
(***************************************************************************)
\* a carry bug: the last byte wraps to zero instead of a zero being pushed
advance_key_wrap(bytes) ==
    IF Len(bytes) = 0
    THEN Append(bytes, 0)
    ELSE [bytes EXCEPT ![Len(bytes)] = (bytes[Len(bytes)] + 1) % (ByteMax + 1)]

\* an off-by-one bug: the last byte is advanced by two
advance_key_skip(bytes) ==
    IF Len(bytes) = 0 \/ bytes[Len(bytes)] >= ByteMax - 1
    THEN Append(bytes, 0)
    ELSE [bytes EXCEPT ![Len(bytes)] = bytes[Len(bytes)] + 2]

\* match bytes.last_mut() { Some(&mut 255) | None => bytes.push(0),
\*                          Some(last) => *last += 1 }
advance_key(bytes) ==
    IF Len(bytes) = 0 \/ bytes[Len(bytes)] = ByteMax
    THEN Append(bytes, 0)
    ELSE [bytes EXCEPT ![Len(bytes)] = bytes[Len(bytes)] + 1]

\* an underflow bug: a last byte of zero wraps to 0xFF
retreat_key_wrap(bytes) ==
    IF bytes[Len(bytes)] = 0
    THEN [bytes EXCEPT ![Len(bytes)] = ByteMax]
    ELSE [bytes EXCEPT ![Len(bytes)] = bytes[Len(bytes)] - 1]

\* retreat_key panics on the empty Vec
retreat_panics(bytes) == Len(bytes) = 0

\* match bytes.last_mut() { Some(&mut 0) => { bytes.pop(); }
\*                          Some(last) => *last -= 1, None => panic!() }
\* (defined where retreat_panics(bytes) is false)
retreat_key(bytes) ==
    IF bytes[Len(bytes)] = 0
    THEN SubSeq(bytes, 1, Len(bytes) - 1)
    ELSE [bytes EXCEPT ![Len(bytes)] = bytes[Len(bytes)] - 1]

(***************************************************************************)
(* Codecs  (src/src/format.rs, src/src/types.rs)                           *)
(***************************************************************************)
None == <<>>

Some(x) == <<x>>

IsSome(o) == Len(o) = 1

\* EFormat::encode of the codec c
\*   "u8":    OwnedType<u8>, the one byte of the value
\*   "bytes": ByteSlice = UnalignedSlice<u8>, the bytes of the slice
Encode(c, item) == IF c = "u8" THEN <<item>> ELSE item

\* DFormat::decode of the codec c
\*   "u8":     OwnedType<u8>: some only for a buffer of size_of::<u8>() bytes
\*             (a u8 buffer is always aligned, the copying branch is dead)
\*   "bytes":  ByteSlice: every buffer is a slice of u8
\*   "ignore": Ignore: the unit value for every buffer
\*   "u8x2":   FixedSlice<u8, 2>: the two bytes of a buffer of two bytes
\*             (any other buffer: see Decode_panics)
Decode(c, bytes) ==
    CASE c = "u8" -> IF Len(bytes) = 1 THEN Some(bytes[1]) ELSE None
      [] c = "bytes" -> Some(bytes)
      [] c = "ignore" -> Some(<<>>)
      [] c = "u8x2" -> IF Len(bytes) = 2 THEN Some(bytes) ELSE None

\* FixedSlice::decode: LayoutVerified::new is None for a buffer that is not
\* size_of::<[T; N]>() bytes long, and then
\* assert_eq!(bytes.len(), size_of::<[T; N]>()) panics
Decode_panics(c, bytes) == c = "u8x2" /\ Len(bytes) # 2

(***************************************************************************)
(* The engine: column families, committed data, transactions               *)
(***************************************************************************)
\* the engine's default column family and one more table name
DefaultCF == "default"

Names == {DefaultCF, "t"}

Txns == {"T1", "T2"}

\* the u8 keys the scans are tried on, as in the spec's example {1..5}, and
\* the largest one
ScanKeys == {1, 2, 3, 4, 5, ByteMax}

\* a key of another length, as a ByteSlice-keyed put stores it
LongKey == <<2, 0>>

\* every key a column family can hold in this model
KeyUniverse == {Encode("u8", k) : k \in ScanKeys} \cup {LongKey}

\* the u8 keys and the data values the transactional operations are tried on
TxKeys == {1, 2}

DataIn == {[dc |-> "u8", v |-> 7], [dc |-> "bytes", v |-> <<7, 7>>]}

EmptyTable == [k \in KeyUniverse |-> None]

\* an entry of a transaction's write batch
Unset == [op |-> "unset", v |-> <<>>]

Del == [op |-> "del", v |-> <<>>]

PutCell(v) == [op |-> "put", v |-> v]

NoBatch == [cf \in Names |-> [k \in KeyUniverse |-> Unset]]

NoTxn == [st |-> "none", kind |-> "r", batch |-> NoBatch]

\* a column family with the write batch b of a transaction applied
Overlay(table, b) ==
    [k \in KeyUniverse |->
        CASE b[k].op = "unset" -> table[k]
          [] b[k].op = "put" -> Some(b[k].v)
          [] b[k].op = "del" -> None]

\* a dirty read: the batches of the other open transactions show through
View_dirty(t, cf) ==
    [k \in KeyUniverse |->
        IF \E u \in Txns : tx[u].st = "open" /\ tx[u].batch[cf][k].op = "put"
        THEN LET u == CHOOSE u \in Txns :
                          tx[u].st = "open" /\ tx[u].batch[cf][k].op = "put"
             IN Some(tx[u].batch[cf][k].v)
        ELSE committed[cf][k]]

\* what the transaction t reads in the column family cf: self.transaction()
\* is begun with the default options, which take no snapshot, so a read
\* sees the transaction's own batch over the data committed at the time of
\* the read
View(t, cf) == Overlay(committed[cf], tx[t].batch[cf])

KeysOf(table) == {k \in KeyUniverse : IsSome(table[k])}

\* put_cf / delete_cf take the lock of the key; a key in the batch of
\* another open transaction is locked and the call fails
Locked(t, cf, k) ==
    \E u \in Txns \ {t} : tx[u].st = "open" /\ tx[u].batch[cf][k].op # "unset"

RECURSIVE Ascending(_)
Ascending(S) ==
    IF S = {} THEN <<>>
    ELSE LET m == CHOOSE x \in S : \A y \in S : LexLeq(x, y)
         IN <<m>> \o Ascending(S \ {m})

Reverse(s) == [i \in 1..Len(s) |-> s[Len(s) + 1 - i]]

Entries(table, ks) == [i \in 1..Len(ks) |-> <<ks[i], table[ks[i]][1]>>]

\* the engine's iterator, IteratorMode::From(from, Forward) or ::Start
\* (from = None) with ReadOptions::set_iterate_upper_bound(upper) (exclusive)
IterForward(table, from, upper) ==
    Entries(table, Ascending({k \in KeysOf(table) :
        /\ IsSome(from) => LexLeq(from[1], k)
        /\ IsSome(upper) => LexLess(k, upper[1])}))

\* the engine's iterator, IteratorMode::From(from, Reverse) or ::End
\* (from = None) with ReadOptions::set_iterate_lower_bound(lower) (inclusive)
IterReverse(table, from, lower) ==
    Entries(table, Reverse(Ascending({k \in KeysOf(table) :
        /\ IsSome(from) => LexLeq(k, from[1])
        /\ IsSome(lower) => LexLeq(lower[1], k)})))

(***************************************************************************)
(* RockTable  (src/src/db/rocks.rs:109-282)                                *)
(***************************************************************************)
Unbounded == [kind |-> "unbounded", key |-> 0]

Included(k) == [kind |-> "included", key |-> k]

Excluded(k) == [kind |-> "excluded", key |-> k]

\* RockTable::get: none when the key is absent, else DC::decode of the bytes
get(table, kc, key, dc) ==
    LET data == table[Encode(kc, key)]
    IN IF IsSome(data) THEN Decode(dc, data[1]) ELSE None

\* RockTable::get calls DC::decode on the bytes of a present key, and a
\* panic of decode unwinds through it
get_panics(table, kc, key, dc) ==
    LET data == table[Encode(kc, key)]
    IN IsSome(data) /\ Decode_panics(dc, data[1])

\* an inclusive end bound handed to the engine as it is
range_no_advance(table, kc, sb, eb) ==
    LET upper == IF eb.kind = "unbounded" THEN None
                 ELSE Some(Encode(kc, eb.key))
        from == CASE sb.kind = "included" -> Some(Encode(kc, sb.key))
                  [] sb.kind = "excluded" -> Some(advance_key(Encode(kc, sb.key)))
                  [] sb.kind = "unbounded" -> None
    IN IterForward(table, from, upper)

\* RockTable::range: the raw entries the returned Iter walks
range(table, kc, sb, eb) ==
    LET upper == CASE eb.kind = "included" -> Some(advance_key(Encode(kc, eb.key)))
                   [] eb.kind = "excluded" -> Some(Encode(kc, eb.key))
                   [] eb.kind = "unbounded" -> None
        from == CASE sb.kind = "included" -> Some(Encode(kc, sb.key))
                  [] sb.kind = "excluded" -> Some(advance_key(Encode(kc, sb.key)))
                  [] sb.kind = "unbounded" -> None
    IN IterForward(table, from, upper)

\* a rev_range that lets an excluded start bound through, with no floor
rev_range_panics_end_only(kc, sb, eb) ==
    eb.kind = "excluded" /\ retreat_panics(Encode(kc, eb.key))

\* a rev_range that looks at the start bound only when the end is bounded
rev_range_panics_bounded_end(kc, sb, eb) ==
    \/ sb.kind = "excluded" /\ eb.kind # "unbounded"
    \/ eb.kind = "excluded" /\ retreat_panics(Encode(kc, eb.key))

\* RockTable::rev_range panics on an excluded start bound, and retreat_key
\* panics on the empty encoding of an excluded end bound
rev_range_panics(kc, sb, eb) ==
    \/ sb.kind = "excluded"
    \/ eb.kind = "excluded" /\ retreat_panics(Encode(kc, eb.key))

\* an exclusive end bound handed to the engine as the key to start from
rev_range_no_retreat(table, kc, sb, eb) ==
    LET lower == IF sb.kind = "included" THEN Some(Encode(kc, sb.key)) ELSE None
        from == IF eb.kind = "unbounded" THEN None
                ELSE Some(Encode(kc, eb.key))
    IN IterReverse(table, from, lower)

\* RockTable::rev_range: the raw entries the returned Iter walks
\* (defined where rev_range_panics is false)
rev_range(table, kc, sb, eb) ==
    LET lower == IF sb.kind = "included" THEN Some(Encode(kc, sb.key)) ELSE None
        from == CASE eb.kind = "included" -> Some(Encode(kc, eb.key))
                  [] eb.kind = "excluded" -> Some(retreat_key(Encode(kc, eb.key)))
                  [] eb.kind = "unbounded" -> None
    IN IterReverse(table, from, lower)

\* RockTable::len: txn.tx.iterator(IteratorMode::Start).count() iterates the
\* transaction without a column family, that is the default column family
len(t, cf) == Cardinality(KeysOf(View(t, DefaultCF)))

\* RockTable::clear: the keys of range::<ByteSlice, Ignore>(..), deleted one
\* by one; the first delete that fails ends the loop with its error
ClearKeys(t, cf) ==
    LET items == range(View(t, cf), "bytes", Unbounded, Unbounded)
    IN [i \in 1..Len(items) |-> items[i][1]]

ClearDone(t, cf) ==
    LET ks == ClearKeys(t, cf)
    IN {i \in 1..Len(ks) : \A j \in 1..i : ~Locked(t, cf, ks[j])}

ClearBatch(t, cf) ==
    LET ks == ClearKeys(t, cf)
        gone == {ks[i] : i \in ClearDone(t, cf)}
    IN [k \in KeyUniverse |-> IF k \in gone THEN Del ELSE tx[t].batch[cf][k]]

ClearOk(t, cf) == Cardinality(ClearDone(t, cf)) = Len(ClearKeys(t, cf))

(***************************************************************************)
(* Bounds and inputs of the store's state machine                          *)
(***************************************************************************)
\* the number of put / delete / clear calls of a behaviour
MaxWrites == 2

NoRes == [op |-> "none"]

NoIter == [st |-> "none"]

NoSnap == [st |-> "none"]

NoClr == [st |-> "none"]

IdleWp == [pc |-> "idle", txn |-> "T1", wrote |-> FALSE]

InBody(t) == wp.pc = "body" /\ wp.txn = t

\* the committed data with the write batch of t applied: what commit writes
Applied(t) == [cf \in Names |-> Overlay(committed[cf], tx[t].batch[cf])]

Touches(t, cf) == \E k \in KeyUniverse : tx[t].batch[cf][k].op # "unset"

\* bookkeeping of the history variables
\* (clr and snap are kept only by the behaviours that track them)
ClrAfterWrite(cf, changed) ==
    IF clr.st = "active" /\ clr.cf = cf /\ changed THEN NoClr ELSE clr

ClrAfterClear(t, cf, ks, ok) ==
    CASE track # "clear" -> clr
      [] ok -> [st |-> "active", txn |-> t, cf |-> cf,
                keys |-> {ks[i] : i \in 1..Len(ks)}, done |-> FALSE, after |-> {}]
      [] OTHER -> ClrAfterWrite(cf, TRUE)

ClrAfterOpen(t) ==
    IF clr.st = "active" /\ clr.done
    THEN [clr EXCEPT !.after = @ \cup {t}]
    ELSE clr

ClrAfterClose(t, isCommit) ==
    CASE clr.st # "active" -> clr
      [] ~clr.done /\ clr.txn = t ->
            IF isCommit THEN [clr EXCEPT !.done = TRUE] ELSE NoClr
      [] isCommit /\ Touches(t, clr.cf) -> NoClr
      [] OTHER -> [clr EXCEPT !.after = @ \ {t}]

SnapAfterClose(t) == IF snap.st = "set" /\ snap.txn = t THEN NoSnap ELSE snap

WpAfterWrite(t, changed) ==
    IF InBody(t) /\ changed THEN [wp EXCEPT !.wrote = TRUE] ELSE wp

(***************************************************************************)
(* Store for DBType  (src/src/db/rocks.rs:18-78)                           *)
(***************************************************************************)
\* a table() that returns the engine's "already exists" error to the caller
table_ok_when_new(name, created) == created /\ name \notin cfs

\* the result of Store::table: create_cf returned Ok (created), or the
\* InvalidArgument error "Column family already exists", which the match
\* swallows; any other error is returned (Err(e) => return Err(e))
table_ok(name, created) == created \/ name \in cfs

\* Store::table: create_cf, then the handle cf_handle(name) finds by name.
\* created: create_cf met no other failure (on an existing name the engine
\* answers "already exists" before it does anything that can fail)
Table(name, created) ==
    /\ name \in cfs => created
    /\ LET ok == table_ok(name, created)
       IN /\ cfs' = IF created THEN cfs \cup {name} ELSE cfs
          /\ handles' = IF ok THEN handles \cup {name} ELSE handles
          /\ res' = [op |-> "table", name |-> name, ok |-> ok,
                     again |-> name \in cfs]
    /\ it' = NoIter
    /\ UNCHANGED <<committed, tx, wp, snap, clr, nw, track>>
    /\ UNCHANGED libVars

\* Store::rtx
Rtx(t) ==
    /\ tx[t].st = "none"
    /\ tx' = [tx EXCEPT ![t] = [st |-> "open", kind |-> "r", batch |-> NoBatch]]
    /\ res' = [op |-> "rtx", txn |-> t]
    /\ clr' = ClrAfterOpen(t)
    /\ it' = NoIter
    /\ UNCHANGED <<cfs, handles, committed, wp, snap, nw, track>>
    /\ UNCHANGED libVars

\* Store::wtx
Wtx(t) ==
    /\ tx[t].st = "none"
    /\ tx' = [tx EXCEPT ![t] = [st |-> "open", kind |-> "w", batch |-> NoBatch]]
    /\ res' = [op |-> "wtx", txn |-> t]
    /\ clr' = ClrAfterOpen(t)
    /\ it' = NoIter
    /\ UNCHANGED <<cfs, handles, committed, wp, snap, nw, track>>
    /\ UNCHANGED libVars

\* Transaction::commit of RockTxn and WRockTxn: the engine applies the whole
\* batch or, on an engine failure, nothing; the transaction is consumed
Commit(t, ok) ==
    /\ tx[t].st = "open"
    /\ ~InBody(t)
    /\ committed' = IF ok THEN Applied(t) ELSE committed
    /\ tx' = [tx EXCEPT ![t] = NoTxn]
    /\ res' = [op |-> "commit", txn |-> t, ok |-> ok]
    /\ clr' = ClrAfterClose(t, ok)
    /\ snap' = SnapAfterClose(t)
    /\ it' = NoIter
    /\ UNCHANGED <<cfs, handles, wp, nw, track>>
    /\ UNCHANGED libVars

\* a transaction dropped without commit: the engine rolls it back
DropTxn(t) ==
    /\ tx[t].st = "open"
    /\ ~InBody(t)
    /\ tx' = [tx EXCEPT ![t] = NoTxn]
    /\ res' = [op |-> "drop", txn |-> t]
    /\ clr' = ClrAfterClose(t, FALSE)
    /\ snap' = SnapAfterClose(t)
    /\ it' = NoIter
    /\ UNCHANGED <<cfs, handles, committed, wp, nw, track>>
    /\ UNCHANGED libVars

(***************************************************************************)
(* Table for RockTable, called through an open transaction                 *)
(***************************************************************************)
Get(t, cf, kc, key, dc) ==
    /\ tx[t].st = "open"
    /\ cf \in handles
    /\ LET val == get(View(t, cf), kc, key, dc)
       IN /\ res' = [op |-> "get", txn |-> t, cf |-> cf, kc |-> kc,
                     key |-> key, dc |-> dc, val |-> val,
                     panic |-> get_panics(View(t, cf), kc, key, dc)]
          /\ snap' = IF track = "snap" /\ snap.st = "none" /\ tx[t].kind = "r"
                     THEN [st |-> "set", txn |-> t, cf |-> cf, kc |-> kc,
                           key |-> key, dc |-> dc, val |-> val]
                     ELSE snap
    /\ it' = NoIter
    /\ UNCHANGED <<cfs, handles, committed, tx, wp, clr, nw, track>>
    /\ UNCHANGED libVars

Length(t, cf) ==
    /\ tx[t].st = "open"
    /\ cf \in handles
    /\ res' = [op |-> "len", txn |-> t, cf |-> cf, val |-> len(t, cf)]
    /\ it' = NoIter
    /\ UNCHANGED <<cfs, handles, committed, tx, wp, snap, clr, nw, track>>
    /\ UNCHANGED libVars

\* txn.tx.put_cf(&self.cf, k, v)?, txn.tx.delete_cf(&self.cf, k)?: the
\* engine fails the call when it cannot take the lock of the key
put_ok(t, cf, k) == ~Locked(t, cf, k)

\* a delete that fails on a key the transaction does not see
delete_ok_when_present(t, cf, k) == ~Locked(t, cf, k) /\ IsSome(View(t, cf)[k])

delete_ok(t, cf, k) == ~Locked(t, cf, k)

\* RockTable::put: the transactions after put_cf of the encoded key and value
put(t, cf, kc, key, dc, data) ==
    [tx EXCEPT ![t].batch[cf][Encode(kc, key)] = PutCell(Encode(dc, data))]

\* an append that leaves the value of a key that is present
append_when_absent(t, cf, kc, key, dc, data) ==
    IF IsSome(View(t, cf)[Encode(kc, key)]) THEN tx
    ELSE put(t, cf, kc, key, dc, data)

\* RockTable::append: self.put::<KC, DC>(txn, key, data)
append(t, cf, kc, key, dc, data) == put(t, cf, kc, key, dc, data)

\* RockTable::delete: the transactions after delete_cf of the encoded key
delete(t, cf, kc, key) == [tx EXCEPT ![t].batch[cf][Encode(kc, key)] = Del]

Put(t, cf, kc, key, dc, data) ==
    /\ tx[t].st = "open" /\ tx[t].kind = "w"
    /\ cf \in handles
    /\ nw < MaxWrites
    /\ LET ok == put_ok(t, cf, Encode(kc, key))
       IN /\ tx' = IF ok THEN put(t, cf, kc, key, dc, data) ELSE tx
          /\ res' = [op |-> "put", txn |-> t, cf |-> cf, kc |-> kc,
                     key |-> key, dc |-> dc, data |-> data, ok |-> ok]
          /\ clr' = ClrAfterWrite(cf, ok)
          /\ wp' = WpAfterWrite(t, ok)
    /\ nw' = nw + 1
    /\ it' = NoIter
    /\ UNCHANGED <<cfs, handles, committed, snap, track>>
    /\ UNCHANGED libVars

AppendTo(t, cf, kc, key, dc, data) ==
    /\ tx[t].st = "open" /\ tx[t].kind = "w"
    /\ cf \in handles
    /\ nw < MaxWrites
    /\ LET ok == put_ok(t, cf, Encode(kc, key))
       IN /\ tx' = IF ok THEN append(t, cf, kc, key, dc, data) ELSE tx
          /\ res' = [op |-> "append", txn |-> t, cf |-> cf, kc |-> kc,
                     key |-> key, dc |-> dc, data |-> data, ok |-> ok]
          /\ clr' = ClrAfterWrite(cf, ok)
          /\ wp' = WpAfterWrite(t, ok)
    /\ nw' = nw + 1
    /\ it' = NoIter
    /\ UNCHANGED <<cfs, handles, committed, snap, track>>
    /\ UNCHANGED libVars

Delete(t, cf, kc, key) ==
    /\ tx[t].st = "open" /\ tx[t].kind = "w"
    /\ cf \in handles
    /\ nw < MaxWrites
    /\ LET ok == delete_ok(t, cf, Encode(kc, key))
       IN /\ tx' = IF ok THEN delete(t, cf, kc, key) ELSE tx
          /\ res' = [op |-> "delete", txn |-> t, cf |-> cf, kc |-> kc,
                     key |-> key, ok |-> ok]
          /\ clr' = ClrAfterWrite(cf, ok)
          /\ wp' = WpAfterWrite(t, ok)
    /\ nw' = nw + 1
    /\ it' = NoIter
    /\ UNCHANGED <<cfs, handles, committed, snap, track>>
    /\ UNCHANGED libVars

Clear(t, cf) ==
    /\ tx[t].st = "open" /\ tx[t].kind = "w"
    /\ cf \in handles
    /\ nw < MaxWrites
    /\ LET ks == ClearKeys(t, cf)
           ok == ClearOk(t, cf)
       IN /\ tx' = [tx EXCEPT ![t].batch[cf] = ClearBatch(t, cf)]
          /\ res' = [op |-> "clear", txn |-> t, cf |-> cf, ok |-> ok]
          /\ clr' = ClrAfterClear(t, cf, ks, ok)
          /\ wp' = WpAfterWrite(t, ClearDone(t, cf) # {})
    /\ nw' = nw + 1
    /\ it' = NoIter
    /\ UNCHANGED <<cfs, handles, committed, snap, track>>
    /\ UNCHANGED libVars

\* RockTable::range returns the Iter over the raw entries (one Iter is alive
\* at a time: it borrows the transaction until it is dropped)
Range(t, cf, kc, dc, sb, eb) ==
    /\ it.st = "none"
    /\ tx[t].st = "open"
    /\ cf \in handles
    /\ it' = [st |-> "open", op |-> "range", at |-> "", txn |-> t, cf |-> cf,
              kc |-> kc, dc |-> dc, sb |-> sb, eb |-> eb,
              raw |-> range(View(t, cf), kc, sb, eb), pos |-> 0, out |-> <<>>]
    /\ res' = [op |-> "range", txn |-> t, cf |-> cf]
    /\ UNCHANGED <<cfs, handles, committed, tx, wp, snap, clr, nw, track>>
    /\ UNCHANGED libVars

\* RockTable::rev_range returns the Iter, or panics before it makes one
RevRange(t, cf, kc, dc, sb, eb) ==
    /\ it.st = "none"
    /\ tx[t].st = "open"
    /\ cf \in handles
    /\ it' = IF rev_range_panics(kc, sb, eb)
             THEN [st |-> "panic", op |-> "rev_range", at |-> "call", txn |-> t,
                   cf |-> cf, kc |-> kc, dc |-> dc, sb |-> sb, eb |-> eb,
                   raw |-> <<>>, pos |-> 0, out |-> <<>>]
             ELSE [st |-> "open", op |-> "rev_range", at |-> "", txn |-> t,
                   cf |-> cf, kc |-> kc, dc |-> dc, sb |-> sb, eb |-> eb,
                   raw |-> rev_range(View(t, cf), kc, sb, eb), pos |-> 0,
                   out |-> <<>>]
    /\ res' = [op |-> "rev_range", txn |-> t, cf |-> cf]
    /\ UNCHANGED <<cfs, handles, committed, tx, wp, snap, clr, nw, track>>
    /\ UNCHANGED libVars

\* Iter::next unwraps KC::decode of the key and DC::decode of the value
iter_next_panics(kc, dc, e) ==
    ~IsSome(Decode(kc, e[1])) \/ ~IsSome(Decode(dc, e[2]))

\* Iter::next: none at the end, else the decoded entry
IterNext ==
    /\ it.st = "open"
    /\ IF it.pos = Len(it.raw)
       THEN it' = [it EXCEPT !.st = "done"]
       ELSE LET e == it.raw[it.pos + 1]
            IN IF iter_next_panics(it.kc, it.dc, e)
               THEN it' = [it EXCEPT !.st = "panic", !.at = "next"]
               ELSE it' = [it EXCEPT !.pos = @ + 1,
                              !.out = Append(@, <<Decode(it.kc, e[1])[1],
                                                  Decode(it.dc, e[2])[1]>>)]
    /\ res' = [op |-> "next"]
    /\ UNCHANGED <<cfs, handles, committed, tx, wp, snap, clr, nw, track>>
    /\ UNCHANGED libVars

\* the Iter is dropped
DropIter ==
    /\ it.st # "none"
    /\ it' = NoIter
    /\ res' = [op |-> "drop_iter"]
    /\ UNCHANGED <<cfs, handles, committed, tx, wp, snap, clr, nw, track>>
    /\ UNCHANGED libVars

(***************************************************************************)
(* Store::with_wtx / writetx  (src/src/lib.rs:82-91, 333-338)              *)
(***************************************************************************)
\* let mut wtx = self.wtx()?; then the closure runs on &mut wtx
WithWtxBegin(t) ==
    /\ wp.pc = "idle"
    /\ tx[t].st = "none"
    /\ tx' = [tx EXCEPT ![t] = [st |-> "open", kind |-> "w", batch |-> NoBatch]]
    /\ wp' = [pc |-> "body", txn |-> t, wrote |-> FALSE]
    /\ res' = [op |-> "with_wtx_begin", txn |-> t]
    /\ clr' = ClrAfterOpen(t)
    /\ it' = NoIter
    /\ UNCHANGED <<cfs, handles, committed, snap, nw, track>>
    /\ UNCHANGED libVars

\* a with_wtx that commits whatever the closure returned
with_wtx_commits_always(out) == TRUE

\* let out = fun(&mut wtx)?; wtx.commit()?;  commit is reached only when the
\* closure returned Ok
with_wtx_commits(out) == out = "ok"

\* the closure returns out ("ok" for Ok(v), "err" for Err(e)); with_wtx
\* commits or drops the transaction and returns ret: "ok" for Ok(v),
\* "closure_error" for Err(e), "commit_error" for the error of commit
WithWtxReturn(out, ok) ==
    /\ wp.pc = "body"
    /\ LET t == wp.txn
           commits == with_wtx_commits(out)
       IN /\ ~commits => ok
          /\ committed' = IF commits /\ ok THEN Applied(t) ELSE committed
          /\ tx' = [tx EXCEPT ![t] = NoTxn]
          /\ wp' = IdleWp
          /\ res' = [op |-> "with_wtx", txn |-> t, out |-> out,
                     wrote |-> wp.wrote,
                     commits |-> IF commits THEN 1 ELSE 0,
                     ret |-> CASE ~commits -> "closure_error"
                               [] commits /\ ok -> "ok"
                               [] commits /\ ~ok -> "commit_error"]
          /\ clr' = ClrAfterClose(t, commits /\ ok)
          /\ snap' = SnapAfterClose(t)
    /\ it' = NoIter
    /\ UNCHANGED <<cfs, handles, nw, track>>
    /\ UNCHANGED libVars

(***************************************************************************)
(* The store as a state machine                                            *)
(***************************************************************************)
KeyIdle == kbytes = <<>> /\ kprev = <<>> /\ kop = "init"

\* no codec call and no paged call has been made
NoCodec == [op |-> "none"]

NoPaged == [pc |-> "none"]

NoTables == [pc |-> "none"]

LibIdle == KeyIdle /\ cd = NoCodec /\ pg = NoPaged /\ tb = NoTables

StoreInit ==
    /\ cfs = Names
    /\ handles = Names
    /\ committed = [cf \in Names |-> EmptyTable]
    /\ tx = [t \in Txns |-> NoTxn]
    /\ res = NoRes
    /\ it = NoIter
    /\ wp = IdleWp
    /\ snap = NoSnap
    /\ clr = NoClr
    /\ nw = 0

Init == LibIdle /\ StoreInit /\ track = "none"

\* (every table has been opened with Store::table when the machine starts)
Next ==
    \/ \E t \in Txns : Rtx(t)
    \/ \E t \in Txns : Wtx(t)
    \/ \E t \in Txns, ok \in BOOLEAN : Commit(t, ok)
    \/ \E t \in Txns : DropTxn(t)
    \/ \E t \in Txns, cf \in Names, key \in TxKeys : Get(t, cf, "u8", key, "u8")
    \/ \E t \in Txns, cf \in Names : Length(t, cf)
    \/ \E t \in Txns, cf \in Names, key \in TxKeys, d \in DataIn :
          Put(t, cf, "u8", key, d.dc, d.v)
    \/ \E t \in Txns, cf \in Names, key \in TxKeys : Delete(t, cf, "u8", key)
    \/ \E t \in Txns, cf \in Names : Clear(t, cf)
    \/ \E t \in Txns, cf \in Names :
          Range(t, cf, "u8", "u8", Unbounded, Unbounded)

Spec == Init /\ [][Next]_vars

\* the same machine, keeping the first get of a read transaction
InitSnap == LibIdle /\ StoreInit /\ track = "snap"

SpecSnap == InitSnap /\ [][Next]_vars

\* the same machine, keeping the last clear
InitClear == LibIdle /\ StoreInit /\ track = "clear"

SpecClear == InitClear /\ [][Next]_vars

\* the transactions, gets and writes of the same machine with calls of
\* with_wtx
InitWtx == LibIdle /\ StoreInit /\ track = "wtx"

NextWtx ==
    \/ \E t \in Txns : Rtx(t)
    \/ \E t \in Txns : Wtx(t)
    \/ \E t \in Txns, ok \in BOOLEAN : Commit(t, ok)
    \/ \E t \in Txns : DropTxn(t)
    \/ \E t \in Txns, cf \in Names, key \in TxKeys : Get(t, cf, "u8", key, "u8")
    \/ \E t \in Txns, cf \in Names, key \in TxKeys, d \in DataIn :
          Put(t, cf, "u8", key, d.dc, d.v)
    \/ \E t \in Txns, cf \in Names, key \in TxKeys : Delete(t, cf, "u8", key)
    \/ \E t \in Txns : WithWtxBegin(t)
    \/ \E out \in {"ok", "err"}, ok \in BOOLEAN : WithWtxReturn(out, ok)

SpecWtx == InitWtx /\ [][NextWtx]_vars

\* the same machine with get through every data codec
GetCodecs == {"u8", "bytes", "u8x2"}

NextGet ==
    \/ \E t \in Txns : Rtx(t)
    \/ \E t \in Txns : Wtx(t)
    \/ \E t \in Txns, ok \in BOOLEAN : Commit(t, ok)
    \/ \E t \in Txns, cf \in Names, key \in TxKeys, dc \in GetCodecs :
          Get(t, cf, "u8", key, dc)
    \/ \E t \in Txns, cf \in Names, key \in TxKeys, d \in DataIn :
          Put(t, cf, "u8", key, d.dc, d.v)
    \/ \E t \in Txns, cf \in Names, key \in TxKeys : Delete(t, cf, "u8", key)

SpecGet == Init /\ [][NextGet]_vars

\* the same machine with append beside put
NextPut ==
    \/ \E t \in Txns : Rtx(t)
    \/ \E t \in Txns : Wtx(t)
    \/ \E t \in Txns, ok \in BOOLEAN : Commit(t, ok)
    \/ \E t \in Txns, cf \in Names, key \in TxKeys : Get(t, cf, "u8", key, "u8")
    \/ \E t \in Txns, cf \in Names, key \in TxKeys, d \in DataIn :
          Put(t, cf, "u8", key, d.dc, d.v)
    \/ \E t \in Txns, cf \in Names, key \in TxKeys, d \in DataIn :
          AppendTo(t, cf, "u8", key, d.dc, d.v)
    \/ \E t \in Txns, cf \in Names, key \in TxKeys : Delete(t, cf, "u8", key)

SpecPut == Init /\ [][NextPut]_vars

\* the same machine with every writing operation of a table
NextWrite ==
    \/ \E t \in Txns : Rtx(t)
    \/ \E t \in Txns : Wtx(t)
    \/ \E t \in Txns, ok \in BOOLEAN : Commit(t, ok)
    \/ \E t \in Txns, cf \in Names, key \in TxKeys, d \in DataIn :
          Put(t, cf, "u8", key, d.dc, d.v)
    \/ \E t \in Txns, cf \in Names, key \in TxKeys, d \in DataIn :
          AppendTo(t, cf, "u8", key, d.dc, d.v)
    \/ \E t \in Txns, cf \in Names, key \in TxKeys : Delete(t, cf, "u8", key)
    \/ \E t \in Txns, cf \in Names : Clear(t, cf)

SpecWrite == Init /\ [][NextWrite]_vars

\* a store opened with the default column family only, whose tables are
\* made by Store::table while transactions write and read through the
\* handles it has returned
InitTable ==
    /\ LibIdle
    /\ cfs = {DefaultCF}
    /\ handles = {}
    /\ committed = [cf \in Names |-> EmptyTable]
    /\ tx = [t \in Txns |-> NoTxn]
    /\ res = NoRes
    /\ it = NoIter
    /\ wp = IdleWp
    /\ snap = NoSnap
    /\ clr = NoClr
    /\ nw = 0
    /\ track = "none"

NextTable ==
    \/ \E name \in Names, created \in BOOLEAN : Table(name, created)
    \/ \E t \in Txns : Wtx(t)
    \/ \E t \in Txns, ok \in BOOLEAN : Commit(t, ok)
    \/ \E t \in Txns, cf \in Names, key \in TxKeys : Get(t, cf, "u8", key, "u8")
    \/ \E t \in Txns, cf \in Names, key \in TxKeys, d \in DataIn :
          Put(t, cf, "u8", key, d.dc, d.v)

SpecTable == InitTable /\ [][NextTable]_vars

(***************************************************************************)
(* Scans: range and rev_range with every kind of bound, over a column      *)
(* family the engine was opened with and two transactions, one of them     *)
(* with a write batch of its own.                                          *)
(***************************************************************************)
ScanCF == "t"

\* the values of the stored entries: one byte, as OwnedType<u8> encodes it,
\* and two bytes, which OwnedType<u8> does not decode
ScanVal == <<7>>

OtherVal == <<7, 7>>

\* the key whose entry may hold the two-byte value
OtherKey == <<3>>

ScanTables ==
    {[k \in KeyUniverse |->
         CASE k \notin S -> None
           [] k = OtherKey /\ other -> Some(OtherVal)
           [] OTHER -> Some(ScanVal)] :
       S \in SUBSET KeyUniverse, other \in BOOLEAN}

\* the write batch of the writing transaction: a delete and a put
ScanBatch ==
    [NoBatch EXCEPT ![ScanCF] =
        [k \in KeyUniverse |->
            CASE k = <<1>> -> Del
              [] k = <<5>> -> PutCell(ScanVal)
              [] OTHER -> Unset]]

\* the keys of the bounds
BoundKeys == {0, 2, 4, ByteMax}

ScanBounds ==
    {Unbounded} \cup {Included(k) : k \in BoundKeys}
                \cup {Excluded(k) : k \in BoundKeys}

InitScan ==
    /\ LibIdle
    /\ cfs = Names
    /\ handles = Names
    /\ \E tbl \in ScanTables :
          committed = [cf \in Names |-> IF cf = ScanCF THEN tbl ELSE EmptyTable]
    /\ tx = [t \in Txns |->
                IF t = "T1"
                THEN [st |-> "open", kind |-> "r", batch |-> NoBatch]
                ELSE [st |-> "open", kind |-> "w", batch |-> ScanBatch]]
    /\ res = NoRes
    /\ it = NoIter
    /\ wp = IdleWp
    /\ snap = NoSnap
    /\ clr = NoClr
    /\ nw = 0
    /\ track = "none"

NextScan ==
    \/ \E t \in Txns, sb \in ScanBounds, eb \in ScanBounds :
          Range(t, ScanCF, "u8", "u8", sb, eb)
    \/ \E t \in Txns, sb \in ScanBounds, eb \in ScanBounds :
          RevRange(t, ScanCF, "u8", "u8", sb, eb)
    \/ IterNext
    \/ DropIter

SpecScan == InitScan /\ [][NextScan]_vars

\* forward scans of a table keyed by ByteSlice: the byte strings of the
\* bounds, one of them a proper extension of another
ByteBoundKeys == {<<2>>, LongKey, <<4>>}

ByteBounds ==
    {Unbounded} \cup {Included(k) : k \in ByteBoundKeys}
                \cup {Excluded(k) : k \in ByteBoundKeys}

NextScanBytes ==
    \/ \E t \in Txns, sb \in ByteBounds, eb \in ByteBounds :
          Range(t, ScanCF, "bytes", "bytes", sb, eb)
    \/ IterNext
    \/ DropIter

SpecScanBytes == InitScan /\ [][NextScanBytes]_vars

(***************************************************************************)
(* The key arithmetic as a state machine: a Vec<u8> drawn from the bounded *)
(* strings, on which advance_key and retreat_key are called.               *)
(***************************************************************************)
KeyInit ==
    /\ kbytes \in Strings(ByteVals, MaxLen)
    /\ kprev = kbytes
    /\ kop = "init"
    /\ cd = NoCodec /\ pg = NoPaged /\ tb = NoTables
    /\ StoreInit /\ track = "none"

AdvanceKey ==
    /\ kop # "panic"
    /\ Len(kbytes) <= MaxLen
    /\ kprev' = kbytes
    /\ kbytes' = advance_key(kbytes)
    /\ kop' = "advance"
    /\ UNCHANGED <<storeVars, cd, pg, tb>>

RetreatKey ==
    /\ kop # "panic"
    /\ kprev' = kbytes
    /\ IF retreat_panics(kbytes)
       THEN /\ kbytes' = kbytes
            /\ kop' = "panic"
       ELSE /\ kbytes' = retreat_key(kbytes)
            /\ kop' = "retreat"
    /\ UNCHANGED <<storeVars, cd, pg, tb>>

KeyNext == AdvanceKey \/ RetreatKey

SpecKey == KeyInit /\ [][KeyNext]_vars

(***************************************************************************)
(* Reverse scans with byte-string keys: rev_range::<ByteSlice, ByteSlice>  *)
(* is called with the Vec<u8> of the key arithmetic as the key of its end  *)
(* bound, so that the bound runs through every string retreat_key meets,   *)
(* the empty one included.                                                 *)
(***************************************************************************)
\* a column family that holds every key of the model
FullTable == [k \in KeyUniverse |-> Some(ScanVal)]

\* the start bounds of the reverse scans
RevStarts == {Unbounded, Included(<<2>>), Excluded(<<2>>)}

RevEnds(k) == {Unbounded, Included(k), Excluded(k)}

\* the bytes of the end bound's key: short of the stored keys (1..5), so
\* that retreat_key reaches the empty string in a few calls
RevBytes == {0, 1, 2}

InitRev ==
    /\ kbytes \in Strings(RevBytes, MaxLen)
    /\ kprev = kbytes
    /\ kop = "init"
    /\ cd = NoCodec /\ pg = NoPaged /\ tb = NoTables
    /\ cfs = Names
    /\ handles = Names
    /\ committed = [cf \in Names |-> IF cf = ScanCF THEN FullTable ELSE EmptyTable]
    /\ tx = [t \in Txns |->
                IF t = "T1"
                THEN [st |-> "open", kind |-> "r", batch |-> NoBatch]
                ELSE [st |-> "open", kind |-> "w", batch |-> ScanBatch]]
    /\ res = NoRes
    /\ it = NoIter
    /\ wp = IdleWp
    /\ snap = NoSnap
    /\ clr = NoClr
    /\ nw = 0
    /\ track = "none"

NextRev ==
    \/ RetreatKey
    \/ \E t \in Txns, sb \in RevStarts, eb \in RevEnds(kbytes) :
          RevRange(t, ScanCF, "bytes", "bytes", sb, eb)
    \/ IterNext
    \/ DropIter

SpecRev == InitRev /\ [][NextRev]_vars

(***************************************************************************)
(* The fixed-layout and unaligned codecs  (src/src/types.rs:32-209)        *)
(*                                                                         *)
(* A value of an element type T of size s is a number below 256^s, its     *)
(* bytes are those of its memory representation in the byte order of the   *)
(* build; a buffer is a byte string and the address it starts at, of which *)
(* the alignment check reads the remainder by align_of::<T>().             *)
(***************************************************************************)
\* longest buffer handed to decode
MaxBuf == 3

\* element types: u8 and u16, and for the Unaligned bound u8 and a
\* two-byte type of alignment one
U8 == [size |-> 1, align |-> 1]

U16 == [size |-> 2, align |-> 2]

U8x2 == [size |-> 2, align |-> 1]

\* the number of elements of FixedSlice<T, N>
FixedN == 2

Codecs ==
    {[kind |-> k, ty |-> ty, n |-> 0] :
        k \in {"OwnedType", "OwnedSlice"}, ty \in {U8, U16}}
      \cup {[kind |-> k, ty |-> ty, n |-> 0] :
        k \in {"UnalignedType", "UnalignedSlice"}, ty \in {U8, U8x2}}
      \cup {[kind |-> "FixedSlice", ty |-> ty, n |-> FixedN] : ty \in {U8, U16}}

Endians == {"le", "be"}

\* the addresses a buffer starts at, by their remainder
Addrs == {0, 1}

RECURSIVE Pow256(_)
Pow256(n) == IF n = 0 THEN 1 ELSE (ByteMax + 1) * Pow256(n - 1)

\* AsBytes::as_bytes of one element
as_bytes(v, ty, e) ==
    [i \in 1..ty.size |->
        IF e = "le" THEN (v \div Pow256(i - 1)) % (ByteMax + 1)
        ELSE (v \div Pow256(ty.size - i)) % (ByteMax + 1)]

RECURSIVE from_le(_)
from_le(b) ==
    IF Len(b) = 0 THEN 0 ELSE b[1] + (ByteMax + 1) * from_le(Tail(b))

\* FromBytes: the element whose memory representation the bytes are
from_bytes(b, e) == IF e = "le" THEN from_le(b) ELSE from_le(Reverse(b))

RECURSIVE Flatten(_)
Flatten(ss) == IF Len(ss) = 0 THEN <<>> ELSE Head(ss) \o Flatten(Tail(ss))

\* <[T] as AsBytes>::as_bytes
slice_as_bytes(vs, ty, e) == Flatten([i \in 1..Len(vs) |-> as_bytes(vs[i], ty, e)])

\* the elements of a buffer whose length is a multiple of size_of::<T>()
slice_from_bytes(b, ty, e) ==
    [i \in 1..(Len(b) \div ty.size) |->
        from_bytes(SubSeq(b, (i - 1) * ty.size + 1, i * ty.size), e)]

\* EFormat::encode of OwnedType, UnalignedType (one element) and of
\* OwnedSlice, UnalignedSlice, FixedSlice (the elements one after another)
encode(c, v, e) ==
    IF c.kind \in {"OwnedType", "UnalignedType"}
    THEN as_bytes(v, c.ty, e)
    ELSE slice_as_bytes(v, c.ty, e)

\* fn aligned_to(bytes, align)
aligned_to(buf, align) == buf.addr % align = 0

\* LayoutVerified::new: the buffer has the size of the target and is aligned
LayoutVerified_new(buf, size, align) ==
    Len(buf.bytes) = size /\ aligned_to(buf, align)

\* LayoutVerified::new_slice: a multiple of the element size, and aligned
LayoutVerified_new_slice(buf, ty) ==
    Len(buf.bytes) % ty.size = 0 /\ aligned_to(buf, ty.align)

\* an OwnedType::decode without the copy of a misaligned buffer
OwnedType_decode_aligned_only(ty, buf, e) ==
    IF LayoutVerified_new(buf, ty.size, ty.align)
    THEN Some(from_bytes(buf.bytes, e))
    ELSE None

\* OwnedType::decode: the verified layout, else the copy of a buffer of the
\* right length that is misaligned, else None
OwnedType_decode(ty, buf, e) ==
    IF LayoutVerified_new(buf, ty.size, ty.align)
    THEN Some(from_bytes(buf.bytes, e))
    ELSE IF Len(buf.bytes) = ty.size /\ ~aligned_to(buf, ty.align)
         THEN Some(from_bytes(buf.bytes, e))
         ELSE None

\* OwnedSlice::decode
OwnedSlice_decode(ty, buf, e) ==
    IF LayoutVerified_new_slice(buf, ty)
    THEN Some(slice_from_bytes(buf.bytes, ty, e))
    ELSE IF Len(buf.bytes) % ty.size = 0 /\ ~aligned_to(buf, ty.align)
         THEN Some(slice_from_bytes(buf.bytes, ty, e))
         ELSE None

\* UnalignedType::decode: LayoutVerified::new_unaligned checks the length
UnalignedType_decode(ty, buf, e) ==
    IF Len(buf.bytes) = ty.size THEN Some(from_bytes(buf.bytes, e)) ELSE None

\* UnalignedSlice::decode: LayoutVerified::new_slice_unaligned
UnalignedSlice_decode(ty, buf, e) ==
    IF Len(buf.bytes) % ty.size = 0
    THEN Some(slice_from_bytes(buf.bytes, ty, e))
    ELSE None

\* FixedSlice::decode, None branch of the match:
\* assert_eq!(bytes.len(), size_of::<[T; N]>())
FixedSlice_decode_panics(ty, n, buf) ==
    /\ ~LayoutVerified_new(buf, n * ty.size, ty.align)
    /\ Len(buf.bytes) # n * ty.size

\* FixedSlice::decode: the verified layout, else the copy of the buffer
\* (defined where FixedSlice_decode_panics is false)
FixedSlice_decode(ty, n, buf, e) == Some(slice_from_bytes(buf.bytes, ty, e))

\* DFormat::decode of the codec c: what it returns, or that it panicked
decode(c, buf, e) ==
    CASE c.kind = "OwnedType" ->
            [panic |-> FALSE, val |-> OwnedType_decode(c.ty, buf, e)]
      [] c.kind = "OwnedSlice" ->
            [panic |-> FALSE, val |-> OwnedSlice_decode(c.ty, buf, e)]
      [] c.kind = "UnalignedType" ->
            [panic |-> FALSE, val |-> UnalignedType_decode(c.ty, buf, e)]
      [] c.kind = "UnalignedSlice" ->
            [panic |-> FALSE, val |-> UnalignedSlice_decode(c.ty, buf, e)]
      [] c.kind = "FixedSlice" ->
            IF FixedSlice_decode_panics(c.ty, c.n, buf)
            THEN [panic |-> TRUE, val |-> None]
            ELSE [panic |-> FALSE, val |-> FixedSlice_decode(c.ty, c.n, buf, e)]

\* the values the codecs are tried on: both ends of the range of T and
\* values whose bytes differ
ElemVals(ty) ==
    IF ty.size = 1 THEN {0, 1, ByteMax}
    ELSE {0, 1, ByteMax + 1, ByteMax + 3, Pow256(2) - 1}

SliceLens(c) == IF c.kind = "FixedSlice" THEN {c.n} ELSE 0..2

CodecVals(c) ==
    IF c.kind \in {"OwnedType", "UnalignedType"}
    THEN ElemVals(c.ty)
    ELSE UNION {[1..m -> ElemVals(c.ty)] : m \in SliceLens(c)}

\* the buffers decode is tried on that no encode has written
RawBytes == Strings({0, 1, ByteMax}, MaxBuf)

InitCodec ==
    /\ KeyIdle /\ pg = NoPaged /\ tb = NoTables
    /\ StoreInit /\ track = "none"
    /\ \E c \in Codecs, e \in Endians :
          cd = [op |-> "init", codec |-> c, endian |-> e]

\* EFormat::encode of a value
CodecEncode(c, v) ==
    /\ cd.op = "init"
    /\ cd.codec = c
    /\ cd' = [op |-> "encoded", codec |-> cd.codec, endian |-> cd.endian,
              val |-> v, bytes |-> encode(cd.codec, v, cd.endian)]
    /\ UNCHANGED <<storeVars, keyVars, pg, tb>>

\* DFormat::decode of the encoded value, in a buffer at the address addr
CodecDecode(addr) ==
    /\ cd.op = "encoded"
    /\ LET buf == [bytes |-> cd.bytes, addr |-> addr]
           r == decode(cd.codec, buf, cd.endian)
       IN cd' = [op |-> "decoded", codec |-> cd.codec, endian |-> cd.endian,
                 from |-> "encode", val |-> Some(cd.val), buf |-> buf,
                 panic |-> r.panic, out |-> r.val]
    /\ UNCHANGED <<storeVars, keyVars, pg, tb>>

\* DFormat::decode of any buffer
CodecDecodeRaw(bytes, addr) ==
    /\ cd.op = "init"
    /\ LET buf == [bytes |-> bytes, addr |-> addr]
           r == decode(cd.codec, buf, cd.endian)
       IN cd' = [op |-> "decoded", codec |-> cd.codec, endian |-> cd.endian,
                 from |-> "raw", val |-> None, buf |-> buf,
                 panic |-> r.panic, out |-> r.val]
    /\ UNCHANGED <<storeVars, keyVars, pg, tb>>

NextCodec ==
    \/ \E c \in Codecs : \E v \in CodecVals(c) : CodecEncode(c, v)
    \/ \E addr \in Addrs : CodecDecode(addr)
    \/ \E bytes \in RawBytes, addr \in Addrs : CodecDecodeRaw(bytes, addr)

SpecCodec == InitCodec /\ [][NextCodec]_vars

(***************************************************************************)
(* paged  (src/src/lib.rs:343-356) as a state machine: one step per turn   *)
(* of its loop, the step function free to leave any cursor behind or fail. *)
(***************************************************************************)
\* the most calls of the step function in a behaviour
MaxCalls == 4

\* the values of the cursor
Cursors == 0..3

\* let mut old = start.clone(); let mut cur = start.clone();
InitPaged ==
    /\ KeyIdle /\ cd = NoCodec /\ tb = NoTables
    /\ StoreInit /\ track = "none"
    /\ \E start \in Cursors :
          pg = [pc |-> "loop", old |-> start, cur |-> start, prev |-> start,
                calls |-> 0, chg |-> 0, ret |-> "none"]

\* a paged that never takes the new cursor as the one to compare with
paged_old_kept(old, cur) == old

\* old = cur.clone();
paged_old(old, cur) == cur

\* one turn of the loop: fun(&mut cur)?; if old == cur { return Ok(()); }
\* old = cur.clone();   The step function leaves the cursor at next and
\* returns Ok, or fails.  prev, calls and chg keep the value of the cursor
\* before the call, the number of calls and how many of them changed it.
PagedTurn(next, fails) ==
    /\ pg.pc = "loop"
    /\ pg.calls < MaxCalls
    /\ pg' = CASE fails ->
                  [pg EXCEPT !.pc = "returned", !.ret = "err",
                             !.calls = @ + 1, !.prev = pg.cur, !.cur = next,
                             !.chg = IF next # pg.cur THEN @ + 1 ELSE @]
              [] ~fails /\ pg.old = next ->
                  [pg EXCEPT !.pc = "returned", !.ret = "ok",
                             !.calls = @ + 1, !.prev = pg.cur, !.cur = next,
                             !.chg = IF next # pg.cur THEN @ + 1 ELSE @]
              [] OTHER ->
                  [pg EXCEPT !.old = paged_old(pg.old, next),
                             !.calls = @ + 1, !.prev = pg.cur, !.cur = next,
                             !.chg = IF next # pg.cur THEN @ + 1 ELSE @]
    /\ UNCHANGED <<storeVars, keyVars, cd, tb>>

NextPaged == \E next \in Cursors, fails \in BOOLEAN : PagedTurn(next, fails)

SpecPaged == InitPaged /\ [][NextPaged]_vars

(***************************************************************************)
(* Tables  (src/src/lib.rs:288-324): the engine boxed and leaked by        *)
(* Tables::new, the table handles the make closure derives from it, and    *)
(* Drop.  log keeps, in order, every use of a handle and every release.    *)
(***************************************************************************)
\* the most table handles a make closure derives
MaxTables == 3

\* the most uses of the handles of a bundle
MaxUses == 2

\* the table names a make closure asks for, in the order of its calls
MakeNames == UNION {[1..n -> Names] : n \in 0..MaxTables}

ReleaseTable(i) == [ev |-> "release_table", h |-> i]

UseTable(i) == [ev |-> "use_table", h |-> i]

ReleaseEngine == [ev |-> "release_engine", h |-> 0]

\* the handles 1..n released one after another
ReleaseTables(n) == [i \in 1..n |-> ReleaseTable(i)]

\* the caller owns the engine it is about to hand to Tables::new
InitTables ==
    /\ KeyIdle /\ cd = NoCodec /\ pg = NoPaged
    /\ StoreInit /\ track = "none"
    /\ tb = [pc |-> "start", engine |-> "owned", hs |-> <<>>, uses |-> 0,
             log |-> <<>>]

\* Tables::new: Box::leak(Box::new(store)), then make(&store, cfg)?.
\* names: the tables the closure derives; fails: it returns Err after
\* them, its handles are dropped as it returns, and the ? returns the
\* error (the leaked engine is left as it is)
TablesNew(names, fails) ==
    /\ tb.pc = "start"
    /\ tb' = IF fails
             THEN [pc |-> "failed", engine |-> "leaked", hs |-> <<>>,
                   uses |-> 0, log |-> ReleaseTables(Len(names))]
             ELSE [pc |-> "live", engine |-> "leaked", hs |-> names,
                   uses |-> 0, log |-> <<>>]
    /\ UNCHANGED <<storeVars, keyVars, cd, pg>>

\* Deref for Tables: a table handle of the bundle is used
TablesUse(i) ==
    /\ tb.pc = "live"
    /\ i \in 1..Len(tb.hs)
    /\ tb.uses < MaxUses
    /\ tb' = [tb EXCEPT !.uses = @ + 1, !.log = Append(@, UseTable(i))]
    /\ UNCHANGED <<storeVars, keyVars, cd, pg>>

\* a drop that frees the engine before the table handles
tables_drop_engine_first(n) == <<ReleaseEngine>> \o ReleaseTables(n)

\* Drop for Tables: ManuallyDrop::drop(&mut self.table), then
\* drop(Box::from_raw(self.store ..))
tables_drop(n) == ReleaseTables(n) \o <<ReleaseEngine>>

TablesDrop ==
    /\ tb.pc = "live"
    /\ tb' = [tb EXCEPT !.pc = "dropped", !.engine = "released",
                        !.log = @ \o tables_drop(Len(tb.hs))]
    /\ UNCHANGED <<storeVars, keyVars, cd, pg>>

NextTables ==
    \/ \E names \in MakeNames, fails \in BOOLEAN : TablesNew(names, fails)
    \/ \E i \in 1..MaxTables : TablesUse(i)
    \/ TablesDrop

SpecTables == InitTables /\ [][NextTables]_vars

(***************************************************************************)
(* Claims about the key arithmetic (checked under SpecKey)                 *)
(***************************************************************************)
AllFF(b) == \A i \in 1..Len(b) : b[i] = ByteMax

Prefixes(b) == {SubSeq(b, 1, n) : n \in 0..Len(b)}

\* byte values at both ends of the range and around the bytes of b
NearBytes(b) ==
    ByteVals \cup {x \in Byte : \E i \in 1..Len(b) : x - b[i] \in (-2)..2}

\* the strings that can lie next to b in byte order: its prefixes and their
\* extensions by one or two bytes
Cand(b) ==
    Prefixes(b)
      \cup {Append(p, x) : p \in Prefixes(b), x \in NearBytes(b)}
      \cup {Append(Append(p, x), y) :
                p \in Prefixes(b), x \in NearBytes(b), y \in ByteVals}

StrictlyBetween(lo, s, hi) == LexLess(lo, s) /\ LexLess(s, hi)

\* C8: for every non-empty byte string b that is not all 0xFF, advance_key(b)
\* is strictly greater than b in byte order and retreat_key(advance_key(b))
\* is b again; and advance_key([0xFF]) = [0xFF, 0x00].
C8_SuccessorPredecessor ==
    kop = "advance" =>
        /\ (Len(kprev) > 0 /\ ~AllFF(kprev)) =>
              /\ LexLess(kprev, kbytes)
              /\ ~retreat_panics(kbytes)
              /\ retreat_key(kbytes) = kprev
        /\ kprev = <<ByteMax>> => kbytes = <<ByteMax, 0>>

\* advance_key has carried on a string that is neither empty nor all 0xFF
C8_Witness ==
    /\ kop = "advance"
    /\ kprev = <<1, ByteMax>>
    /\ kbytes = <<1, ByteMax, 0>>

\* C9 as stated: advance_key(b) is the next byte string after b and
\* retreat_key(b) the previous one, so that no byte string of any length
\* lies strictly between b and advance_key(b), nor between retreat_key(b)
\* and b.
C9_NextPrevious ==
    /\ kop = "advance" =>
          \A s \in Cand(kprev) : ~StrictlyBetween(kprev, s, kbytes)
    /\ kop = "retreat" =>
          \A s \in Cand(kprev) : ~StrictlyBetween(kbytes, s, kprev)

\* C9 as amended: advance_key(b) is strictly greater than b and retreat_key(b)
\* strictly less than b, and no byte string that is no longer than b lies
\* strictly between them; when advance_key pushes a zero byte (b empty or
\* ending in 0xFF) or retreat_key pops one (b ending in 0x00) no byte string
\* of any length lies between.
C9_NextWithinLength ==
    /\ kop = "advance" =>
          /\ LexLess(kprev, kbytes)
          /\ \A s \in Cand(kprev) :
                Len(s) <= Len(kprev) => ~StrictlyBetween(kprev, s, kbytes)
          /\ Len(kbytes) > Len(kprev) =>
                \A s \in Cand(kprev) : ~StrictlyBetween(kprev, s, kbytes)
    /\ kop = "retreat" =>
          /\ LexLess(kbytes, kprev)
          /\ \A s \in Cand(kprev) :
                Len(s) <= Len(kprev) => ~StrictlyBetween(kbytes, s, kprev)
          /\ Len(kbytes) < Len(kprev) =>
                \A s \in Cand(kprev) : ~StrictlyBetween(kbytes, s, kprev)

\* advance_key has incremented the last byte of a two-byte string
C9_Witness ==
    /\ kop = "advance"
    /\ kprev = <<0, 1>>
    /\ kbytes = <<0, 2>>

(***************************************************************************)
(* Claims about scans (checked under SpecScan)                             *)
(***************************************************************************)
\* the bounds as RangeBounds::contains reads them, on the logical keys
SatStart(b, x) ==
    CASE b.kind = "unbounded" -> TRUE
      [] b.kind = "included" -> b.key <= x
      [] b.kind = "excluded" -> b.key < x

SatEnd(b, x) ==
    CASE b.kind = "unbounded" -> TRUE
      [] b.kind = "included" -> x <= b.key
      [] b.kind = "excluded" -> x < b.key

\* every stored key has the one length the key codec encodes to
FixedLenKeys(table, kc) ==
    \A k \in KeysOf(table) : Len(k) = Len(Encode(kc, 0))

\* the keys of the table within the bounds, by the logical (numeric) key
Within(table, sb, eb) ==
    {k \in KeysOf(table) : SatStart(sb, k[1]) /\ SatEnd(eb, k[1])}

ScanView == View(it.txn, it.cf)

RawKeys == {it.raw[i][1] : i \in 1..Len(it.raw)}

\* the Iter walks the entries of its transaction's view with their values
RawFromView ==
    \A i \in 1..Len(it.raw) : ScanView[it.raw[i][1]] = Some(it.raw[i][2])

\* an iteration that reached the end yielded every raw entry, decoded
YieldedAll ==
    it.st = "done" =>
        /\ Len(it.out) = Len(it.raw)
        /\ \A i \in 1..Len(it.raw) :
              it.out[i] = <<it.raw[i][1][1], it.raw[i][2][1]>>

\* C1: when every stored key has the one fixed length of the key codec (its
\* bytes ordered as the keys), range(txn, bounds) yields for every
\* combination of start and end bound exactly the entries visible to txn
\* whose key satisfies both bounds, each once, in ascending key order.
C1_ForwardRangeExact ==
    (it.st # "none" /\ it.op = "range" /\ FixedLenKeys(ScanView, it.kc)) =>
        /\ it.st # "panic" \/ it.at = "next"
        /\ RawKeys = Within(ScanView, it.sb, it.eb)
        /\ RawFromView
        /\ \A i, j \in 1..Len(it.raw) :
              i < j => it.raw[i][1][1] < it.raw[j][1][1]
        /\ YieldedAll

\* the example of the spec: keys {1..5}, [2, 4) has yielded 2 then 3
C1_Witness ==
    /\ it.st = "done" /\ it.op = "range"
    /\ KeysOf(ScanView) = {<<1>>, <<2>>, <<3>>, <<4>>, <<5>>}
    /\ it.sb = Included(2) /\ it.eb = Excluded(4)
    /\ it.out = << <<2, 7>>, <<3, 7>> >>

\* C2 as stated: a reverse range with an exclusive lower bound lo and an
\* inclusive upper bound hi returns exactly the stored keys k with
\* lo < k <= hi in descending order (keys {1..5}: (2, 4] returns 4 then 3).
C2_RevExclusiveLower ==
    (/\ it.st # "none" /\ it.op = "rev_range"
     /\ it.sb.kind = "excluded" /\ it.eb.kind = "included"
     /\ FixedLenKeys(ScanView, it.kc)) =>
        /\ it.st # "panic" \/ it.at = "next"
        /\ RawKeys = Within(ScanView, it.sb, it.eb)
        /\ \A i, j \in 1..Len(it.raw) :
              i < j => it.raw[i][1][1] > it.raw[j][1][1]

\* C2 as amended: a reverse range with an inclusive lower bound lo and an
\* inclusive upper bound hi returns exactly the stored keys k with
\* lo <= k <= hi in descending order (keys {1..5}: [2, 4] returns 4, 3, 2);
\* a reverse range with an exclusive lower bound aborts in the call and
\* returns no sequence.
C2_RevInclusiveLower ==
    /\ (/\ it.st # "none" /\ it.op = "rev_range"
        /\ it.sb.kind = "included" /\ it.eb.kind = "included"
        /\ FixedLenKeys(ScanView, it.kc)) =>
           /\ it.st # "panic" \/ it.at = "next"
           /\ RawKeys = Within(ScanView, it.sb, it.eb)
           /\ RawFromView
           /\ \A i, j \in 1..Len(it.raw) :
                 i < j => it.raw[i][1][1] > it.raw[j][1][1]
           /\ YieldedAll
    /\ (it.st # "none" /\ it.op = "rev_range" /\ it.sb.kind = "excluded") =>
           it.st = "panic" /\ it.at = "call" /\ it.raw = <<>> /\ it.out = <<>>

\* keys {1..5}: the reverse range over [2, 4] has yielded 4, 3, 2
C2_Witness ==
    /\ it.st = "done" /\ it.op = "rev_range"
    /\ KeysOf(ScanView) = {<<1>>, <<2>>, <<3>>, <<4>>, <<5>>}
    /\ it.sb = Included(2) /\ it.eb = Included(4)
    /\ it.out = << <<4, 7>>, <<3, 7>>, <<2, 7>> >>

\* C7: next() of a range or rev_range sequence never panics on stored data;
\* an entry whose key or value the codec cannot decode comes out as a value.
C7_NextNeverPanics == ~(it.st = "panic" /\ it.at = "next")

(***************************************************************************)
(* Claims about transactions                                               *)
(***************************************************************************)
\* C3: len(txn) on a table returns the number of entries of that table
\* visible to txn, whatever the other tables hold.
C3_LenCountsTable ==
    res.op = "len" => res.val = Cardinality(KeysOf(View(res.txn, res.cf)))

\* the transaction a call after the last clear has to be made through: the
\* clearing one until it commits, one begun after the commit from then on
ClearedFor(t) ==
    IF clr.done THEN t \in clr.after ELSE t = clr.txn

\* C4: after clear(txn) on a table, len of the table through txn is 0 and
\* get of every key that was present returns none; the same through a
\* transaction begun after txn is committed.  (Checked under SpecClear.)
C4_ClearEmpties ==
    (clr.st = "active" /\ res.op \in {"len", "get"}
       /\ res.cf = clr.cf /\ ClearedFor(res.txn)) =>
        /\ res.op = "len" => res.val = 0
        /\ (res.op = "get" /\ Encode(res.kc, res.key) \in clr.keys) =>
              res.val = None

ReadByReader(r) ==
    /\ r.txn \in Txns
    /\ tx[r.txn].st = "open"
    /\ tx[r.txn].kind = "r"

\* what commit has to write: every put and delete of the batch, nothing else
CommitWrites(t) ==
    \A cf \in Names, k \in KeyUniverse :
        LET c == tx[t].batch[cf][k]
        IN /\ c.op = "put" => committed'[cf][k] = Some(c.v)
           /\ c.op = "del" => committed'[cf][k] = None
           /\ c.op = "unset" => committed'[cf][k] = committed[cf][k]

\* C5: a get or range of a read transaction returns the committed data
\* only, whatever the uncommitted write transactions have put, deleted or
\* cleared; a successful commit writes all the mutations of its batch, so
\* that the read transactions begun afterwards observe them.
C5_WriteIsolation ==
    /\ [](/\ (res.op = "get" /\ ReadByReader(res)) =>
                res.val = get(committed[res.cf], res.kc, res.key, res.dc)
          /\ (it.st # "none" /\ ReadByReader(it)) =>
                it.raw = range(committed[it.cf], it.kc, it.sb, it.eb))
    /\ [][(res'.op = "commit" /\ res'.ok) => CommitWrites(res'.txn)]_vars

\* a read transaction got none for a key an open write transaction has put
C5_Witness ==
    /\ res.op = "get" /\ ReadByReader(res)
    /\ res.val = None
    /\ \E w \in Txns :
          /\ tx[w].st = "open" /\ tx[w].kind = "w"
          /\ tx[w].batch[res.cf][Encode(res.kc, res.key)].op = "put"

\* C6: with_wtx opens one write transaction; when the closure returns Ok the
\* transaction is committed exactly once and Ok or the commit's error is
\* returned; when it returns Err that error is returned, commit is not
\* called and nothing the closure wrote reaches the committed data, as for
\* a write transaction dropped without commit.  (Checked under SpecWtx.)
C6_WithWtx ==
    [][/\ (wp.pc = "idle" /\ wp'.pc = "body") =>
              /\ tx[wp'.txn].st = "none"
              /\ tx' = [tx EXCEPT ![wp'.txn] =
                           [st |-> "open", kind |-> "w", batch |-> NoBatch]]
       /\ (wp.pc = "body" /\ wp'.pc = "idle") =>
              /\ res'.op = "with_wtx" /\ res'.txn = wp.txn
              /\ tx' = [tx EXCEPT ![wp.txn] = NoTxn]
              /\ res'.out = "ok" =>
                    /\ res'.commits = 1
                    /\ \/ res'.ret = "ok" /\ CommitWrites(wp.txn)
                       \/ res'.ret = "commit_error" /\ committed' = committed
              /\ res'.out = "err" =>
                    /\ res'.commits = 0
                    /\ res'.ret = "closure_error"
                    /\ committed' = committed
       /\ res'.op = "drop" =>
              /\ committed' = committed
              /\ tx' = [tx EXCEPT ![res'.txn] = NoTxn]
      ]_vars

\* with_wtx has returned the error of a closure that had written
C6_Witness ==
    /\ res.op = "with_wtx"
    /\ res.out = "err" /\ res.wrote
    /\ res.ret = "closure_error" /\ res.commits = 0

\* C10: two get calls on the same key through one read transaction return
\* the same result, also when another transaction commits a put or delete
\* of the key between them.  (Checked under SpecSnap.)
C10_SnapshotRead ==
    (/\ res.op = "get" /\ snap.st = "set"
     /\ res.txn = snap.txn /\ res.cf = snap.cf
     /\ res.kc = snap.kc /\ res.key = snap.key /\ res.dc = snap.dc) =>
        res.val = snap.val

Decodable(dc, bytes) ==
    CASE dc = "u8" -> Len(bytes) = 1
      [] dc = "bytes" -> TRUE
      [] dc = "u8x2" -> Len(bytes) = 2

ValueOf(dc, bytes) == IF dc = "u8" THEN bytes[1] ELSE bytes

\* C12: get(txn, key) returns none when the key is absent from the table as
\* txn sees it and when the key is present but the data codec cannot decode
\* its bytes; it returns some(v) only when the key is present and its bytes
\* decode to v; it never aborts.  (Checked under SpecGet.)
C12_GetNoneOrValue ==
    res.op = "get" =>
        LET data == View(res.txn, res.cf)[Encode(res.kc, res.key)]
        IN /\ ~res.panic
           /\ IF IsSome(data) /\ Decodable(res.dc, data[1])
              THEN res.val = Some(ValueOf(res.dc, data[1]))
              ELSE res.val = None

LengthMatches(c, bytes) ==
    CASE c.kind \in {"OwnedType", "UnalignedType"} -> Len(bytes) = c.ty.size
      [] c.kind \in {"OwnedSlice", "UnalignedSlice"} -> Len(bytes) % c.ty.size = 0
      [] c.kind = "FixedSlice" -> Len(bytes) = c.n * c.ty.size

\* C14: decode of OwnedType<T>, OwnedSlice<T> and FixedSlice<T, N> on a
\* buffer whose length is not size_of T, not a multiple of size_of T, not
\* N * size_of T respectively returns none and does not panic, whether the
\* buffer is aligned or not.
C14_DecodeLengthChecked ==
    (/\ cd.op = "decoded"
     /\ cd.codec.kind \in {"OwnedType", "OwnedSlice", "FixedSlice"}
     /\ ~LengthMatches(cd.codec, cd.buf.bytes)) =>
        ~cd.panic /\ cd.out = None

\* C17: decode(encode(v)) returns some(v) for OwnedType, OwnedSlice,
\* UnalignedType, UnalignedSlice and FixedSlice and every value v, with the
\* encoded bytes in a buffer aligned for the element type and in a
\* misaligned buffer.
C17_CodecRoundTrip ==
    (cd.op = "decoded" /\ cd.from = "encode") =>
        ~cd.panic /\ cd.out = cd.val

\* a slice of two u16 whose bytes differ has come back from a misaligned
\* buffer
C17_Witness ==
    /\ cd.op = "decoded" /\ cd.from = "encode"
    /\ cd.codec.kind = "OwnedSlice" /\ cd.codec.ty = U16
    /\ cd.buf.addr = 1
    /\ cd.out = Some(<<ByteMax + 3, 1>>)

\* what t reads in cf after the step
ViewAfter(t, cf) == Overlay(committed'[cf], tx'[t].batch[cf])

\* the step changes nothing of what t reads but the key k of cf
OnlyKeyChanged(t, cf, k) ==
    \A cf2 \in Names, k2 \in KeyUniverse :
        (cf2 # cf \/ k2 # k) => ViewAfter(t, cf2)[k2] = View(t, cf2)[k2]

\* C15: after put(txn, k, v) or append(txn, k, v) on a table, get(txn, k)
\* returns v whether or not k was present before and every other key keeps
\* its value; append leaves the table in the state put would leave it in.
\* (Checked under SpecPut.)
C15_PutUpsertAppendSame ==
    [][(res'.op \in {"put", "append"} /\ res'.ok) =>
          /\ get(ViewAfter(res'.txn, res'.cf), res'.kc, res'.key, res'.dc)
                = Some(res'.data)
          /\ OnlyKeyChanged(res'.txn, res'.cf, Encode(res'.kc, res'.key))
          /\ committed' = committed
          /\ res'.op = "append" =>
                tx' = put(res'.txn, res'.cf, res'.kc, res'.key, res'.dc,
                          res'.data)
      ]_vars

\* append has replaced the committed value of a key by one of another length
C15_Witness ==
    /\ res.op = "append" /\ res.ok
    /\ res.dc = "bytes"
    /\ committed[res.cf][Encode(res.kc, res.key)] = Some(<<7>>)
    /\ View(res.txn, res.cf)[Encode(res.kc, res.key)] = Some(<<7, 7>>)

\* C16: delete(txn, k) on a table where txn sees no k succeeds as it does
\* where k is present (it fails only when the engine fails the call) and
\* leaves what txn reads unchanged; where k is present it removes k, so
\* that get(txn, k) returns none, and every other key keeps its value.
\* (Checked under SpecPut.)
C16_DeleteFrame ==
    [][res'.op = "delete" =>
          LET t == res'.txn
              cf == res'.cf
              k == Encode(res'.kc, res'.key)
          IN /\ res'.ok = ~Locked(t, cf, k)
             /\ res'.ok =>
                   /\ ViewAfter(t, cf)[k] = None
                   /\ get(ViewAfter(t, cf), res'.kc, res'.key, "u8") = None
                   /\ OnlyKeyChanged(t, cf, k)
                   /\ ~IsSome(View(t, cf)[k]) =>
                         \A cf2 \in Names : ViewAfter(t, cf2) = View(t, cf2)
             /\ ~res'.ok => tx' = tx
             /\ committed' = committed
      ]_vars

\* a delete of a key the transaction does not see has returned Ok
C16_Witness ==
    /\ res.op = "delete" /\ res.ok
    /\ tx[res.txn].st = "open"
    /\ committed[res.cf][Encode(res.kc, res.key)] = None
    /\ \E k \in KeyUniverse : IsSome(View(res.txn, res.cf)[k])

(***************************************************************************)
(* Claims about reverse scans and retreat_key (checked under SpecRev and   *)
(* SpecScan)                                                               *)
(***************************************************************************)
\* C18: rev_range called with an exclusive start bound aborts in the call,
\* whatever the end bound is: no iterator is made, no entry is yielded, and
\* neither the committed data nor a write batch changes.
C18_RevExcludedStartAborts ==
    [][(res'.op = "rev_range" /\ it'.sb.kind = "excluded") =>
          /\ it'.st = "panic" /\ it'.at = "call"
          /\ it'.raw = <<>> /\ it'.out = <<>> /\ it'.pos = 0
          /\ committed' = committed /\ tx' = tx
      ]_vars

\* rev_range has aborted on an exclusive start bound with the end unbounded
C18_Witness ==
    /\ it.st = "panic" /\ it.at = "call" /\ it.op = "rev_range"
    /\ it.sb.kind = "excluded" /\ it.eb.kind = "unbounded"

\* C19: when every stored key has the one fixed length of the key codec,
\* rev_range with a start bound that is unbounded or inclusive and an end
\* bound of any kind yields exactly the entries visible to the transaction
\* whose key satisfies both bounds, each once, in descending key order;
\* also when the key of the end bound is not stored and when the encoding
\* of an exclusive end bound ends in a zero byte.  (Checked under SpecScan.)
C19_ReverseRangeExact ==
    (/\ it.st # "none" /\ it.op = "rev_range"
     /\ it.sb.kind \in {"unbounded", "included"}
     /\ FixedLenKeys(ScanView, it.kc)) =>
        /\ ~(it.st = "panic" /\ it.at = "call")
        /\ RawKeys = Within(ScanView, it.sb, it.eb)
        /\ Len(it.raw) = Cardinality(RawKeys)
        /\ RawFromView
        /\ \A i, j \in 1..Len(it.raw) :
              i < j => it.raw[j][1][1] < it.raw[i][1][1]
        /\ YieldedAll

\* keys {1, 3, 5}: the reverse range up to the key 4, which is not stored
\* and is excluded, has yielded 3 then 1
C19_Witness ==
    /\ it.st = "done" /\ it.op = "rev_range"
    /\ KeysOf(ScanView) = {<<1>>, <<3>>, <<5>>}
    /\ it.sb = Unbounded /\ it.eb = Excluded(4)
    /\ it.out = << <<3, 7>>, <<1, 7>> >>

\* an exclusive end bound whose encoding ends in a zero byte: retreat_key
\* pops the byte and the scan from the empty key yields nothing
C19_ZeroByteEnd ==
    /\ it.st = "done" /\ it.op = "rev_range"
    /\ KeysOf(ScanView) # {}
    /\ it.eb = Excluded(0)
    /\ it.out = <<>>

\* C20: retreat_key on a string whose last byte is zero removes that byte
\* and changes nothing else (retreat_key([0x00]) = []), on a string whose
\* last byte is not zero it decrements the last byte only and keeps the
\* length, and on the empty string it panics and produces no key; rev_range
\* with an exclusive end bound whose encoding is empty therefore aborts in
\* the call.  (Checked under SpecRev.)
C20_RetreatNeverUnderflows ==
    /\ kop = "retreat" =>
          /\ Len(kprev) > 0
          /\ \A i \in 1..Len(kbytes) : kbytes[i] \in Byte
          /\ kprev[Len(kprev)] = 0 =>
                kbytes = SubSeq(kprev, 1, Len(kprev) - 1)
          /\ kprev[Len(kprev)] # 0 =>
                /\ Len(kbytes) = Len(kprev)
                /\ kbytes[Len(kprev)] = kprev[Len(kprev)] - 1
                /\ \A i \in 1..(Len(kprev) - 1) : kbytes[i] = kprev[i]
          /\ kprev = <<0>> => kbytes = <<>>
    /\ kop = "panic" => kprev = <<>> /\ kbytes = <<>>
    /\ (it.st # "none" /\ it.op = "rev_range" /\ it.eb.kind = "excluded") =>
          IF Encode(it.kc, it.eb.key) = <<>>
          THEN it.st = "panic" /\ it.at = "call" /\ it.raw = <<>> /\ it.out = <<>>
          ELSE it.sb.kind # "excluded" => ~(it.st = "panic" /\ it.at = "call")

\* retreat_key has popped the zero byte of [0x00], and rev_range up to the
\* empty key, excluded, has aborted
C20_Witness ==
    /\ kop = "retreat" /\ kprev = <<0>> /\ kbytes = <<>>
    /\ it.st = "panic" /\ it.at = "call" /\ it.op = "rev_range"
    /\ it.sb.kind = "unbounded"
    /\ it.eb = Excluded(<<>>)

(***************************************************************************)
(* Claims about the Tables bundle (checked under SpecTables)               *)
(***************************************************************************)
EventsAt(e) == {i \in 1..Len(tb.log) : tb.log[i] = e}

EngineReleases == Cardinality(EventsAt(ReleaseEngine))

C24_EngineAlwaysReleased ==
    tb.pc \in {"dropped", "failed"} =>
        EngineReleases = 1 /\ tb.engine = "released"

(***************************************************************************)
(* Claims about scans of byte-string keys (checked under SpecScanBytes)    *)
(***************************************************************************)
\* the bounds read on the encoded keys in byte-lexicographic order
LexSatStart(b, kc, k) ==
    CASE b.kind = "unbounded" -> TRUE
      [] b.kind = "included" -> LexLeq(Encode(kc, b.key), k)
      [] b.kind = "excluded" -> LexLess(Encode(kc, b.key), k)

LexSatEnd(b, kc, k) ==
    CASE b.kind = "unbounded" -> TRUE
      [] b.kind = "included" -> LexLeq(k, Encode(kc, b.key))
      [] b.kind = "excluded" -> LexLess(k, Encode(kc, b.key))

LexWithin(table, kc, sb, eb) ==
    {k \in KeysOf(table) : LexSatStart(sb, kc, k) /\ LexSatEnd(eb, kc, k)}

\* C22: with a key codec of variable-length encodings, range(txn, bounds)
\* yields exactly the stored keys whose encoding satisfies the bounds in
\* byte-lexicographic order: none greater than the encoding of an inclusive
\* upper bound, and every one greater than that of an exclusive lower bound.
C22_RangeExactVarLen ==
    (it.st # "none" /\ it.op = "range" /\ it.kc = "bytes") =>
        RawKeys = LexWithin(ScanView, it.kc, it.sb, it.eb)

(***************************************************************************)
(* Claims about the tables as namespaces (checked under SpecWrite)         *)
(***************************************************************************)
\* the bounds the scans of the other table are compared on
FrameBounds == {Unbounded, Included(2)}

\* what get, range and rev_range return on a table, as a transaction reads it
ReadsOf(table) ==
    [g |-> [k \in TxKeys |-> get(table, "u8", k, "bytes")],
     r |-> [b \in FrameBounds \X FrameBounds |->
               range(table, "u8", b[1], b[2])],
     rr |-> [b \in FrameBounds \X FrameBounds |->
               rev_range(table, "u8", b[1], b[2])]]

\* the step is a put, append, delete or clear on the table cf
WriteOn(cf) ==
    /\ nw' = nw + 1
    /\ res'.op \in {"put", "append", "delete", "clear"}
    /\ res'.cf = cf

\* C23: a put, append, delete or clear on table A within a transaction
\* leaves the result of get, range, rev_range and len on every other table
\* B, through the same or any other transaction, as it was before.
C23_TablesIndependent ==
    [][\A A \in Names : WriteOn(A) =>
          \A B \in Names \ {A}, t \in Txns :
              tx[t].st = "open" =>
                  /\ ReadsOf(ViewAfter(t, B)) = ReadsOf(View(t, B))
                  /\ len(t, B)' = len(t, B)]_vars

====
